---- MODULE Spec2Model ----
(***************************************************************************)
(* Model of kaggle/common/config.py: class Config, a settings container    *)
(* that keeps every setting as an attribute of the instance.               *)
(*                                                                         *)
(* Strings are sequences of one-character strings, so that the name        *)
(* handling (str(), strip(), leading-dash removal, the character filter)   *)
(* is computed character by character as the code computes it.             *)
(* The instance __dict__ is a function from names to values.               *)
(***************************************************************************)
EXTENDS Integers, Sequences, FiniteSets, TLC

VARIABLES
    pc,        \* "new": no Config built yet; "live": constructor returned; "dead": constructor raised
    entries,   \* self.__dict__ of the Config instance
    last,      \* the latest call made by the caller: operation, arguments, result, exception raised outward
    ref,       \* what the caller's reference to the mapping returned by get_all_params points to
    snap,      \* contents of the dict object created by get_all_params
    raw,       \* argument of a direct _clean_name call
    clean      \* result of that call

vars == <<pc, entries, last, ref, snap, raw, clean>>

----------------------------------------------------------------------------
(* Bounds *)

MaxSrc == 2        \* most keys in a mapping passed to update_from_dict / the constructor
MaxLen == 3        \* longest string handed to _clean_name directly

----------------------------------------------------------------------------
(* Characters *)

LowerChars == {"a","b","c","d","e","f","g","h","i","j","k","l","m",
               "n","o","p","q","r","s","t","u","v","w","x","y","z"}
UpperChars == {"A","B","C","D","E","F","G","H","I","J","K","L","M",
               "N","O","P","Q","R","S","T","U","V","W","X","Y","Z"}
DigitChars == {"0","1","2","3","4","5","6","7","8","9"}

\* the complement of the class in re.findall("[^a-zA-Z0-9_.:/\\\]+", result)
AllowedChars == LowerChars \cup UpperChars \cup DigitChars \cup {"_", ".", ":", "/", "\\"}

\* characters removed by str.strip()
Whitespace == {" ", "\t", "\n"}

\* the empty string
Empty == <<>>

----------------------------------------------------------------------------
(* Name sanitization *)

RECURSIVE StripDashes(_)
\* while result.startswith("-"): result = result[1:]
StripDashes(result) ==
    IF Len(result) > 0 /\ Head(result) = "-"
    THEN StripDashes(Tail(result))
    ELSE result

\* len(re.findall("[^a-zA-Z0-9_.:/\\\]+", result)) > 0
HasDisallowed(result) == \E i \in 1..Len(result) : result[i] \notin AllowedChars

\* variant: only one leading '-' is removed (if instead of while)
clean_name_one_dash(name) ==
    LET result == IF Len(name) > 0 /\ Head(name) = "-" THEN Tail(name) ELSE name
    IN  IF HasDisallowed(result) THEN Empty ELSE result

\* variant: the character filter is left out
clean_name_no_filter(name) == StripDashes(name)

clean_name(name) ==
    LET result == StripDashes(name)
    IN  IF HasDisallowed(result) THEN Empty ELSE result

RECURSIVE LStrip(_)
LStrip(s) == IF Len(s) > 0 /\ Head(s) \in Whitespace THEN LStrip(Tail(s)) ELSE s

RECURSIVE RStrip(_)
RStrip(s) ==
    IF Len(s) > 0 /\ s[Len(s)] \in Whitespace
    THEN RStrip(SubSeq(s, 1, Len(s) - 1))
    ELSE s

\* str.strip()
Strip(s) == RStrip(LStrip(s))

----------------------------------------------------------------------------
(* Names that matter to the attribute machinery *)

N_log               == <<"l","o","g">>
N_dict              == <<"_","_","d","i","c","t","_","_">>
N_class             == <<"_","_","c","l","a","s","s","_","_">>
N_init              == <<"_","_","i","n","i","t","_","_">>
N_clean_name        == <<"_","c","l","e","a","n","_","n","a","m","e">>
N_update_from_dict  == <<"u","p","d","a","t","e","_","f","r","o","m","_","d","i","c","t">>
N_load_json         == <<"l","o","a","d","_","j","s","o","n">>
N_set_param         == <<"s","e","t","_","p","a","r","a","m">>
N_get_param         == <<"g","e","t","_","p","a","r","a","m">>
N_has_param         == <<"h","a","s","_","p","a","r","a","m">>
N_get_all_params    == <<"g","e","t","_","a","l","l","_","p","a","r","a","m","s">>

\* functions defined in the class body: found on the class, shadowed by an
\* instance attribute of the same name
Methods == {N_init, N_clean_name, N_update_from_dict, N_load_json, N_set_param,
            N_get_param, N_has_param, N_get_all_params}

\* data descriptors of the type: they take precedence over the instance dict
Descriptors == {N_dict, N_class}

----------------------------------------------------------------------------
(* Values.  Every value is a token; the scalars stand for JSON scalars,   *)
(* DictVal for a mapping literal, written anew at each use, whose contents *)
(* are DictContents.                                                       *)

V1 == "v1"
V2 == "v2"
DictVal == "{'#': 'v1'}"
LogPrefix == "[Config] "          \* self.log = '[Config] '

Scalars == {V1, V2}
Values  == Scalars \cup {DictVal}

\* results that are not setting values
PyNone      == "None"
PyTrue      == "True"
PyFalse     == "False"
BoundMethod == "<bound method>"
TheDict     == "<self.__dict__>"
TheClass    == "<class Config>"
ACopy       == "<copy of self.__dict__>"

NoExc == "none"

EmptyDict == [n \in {} |-> V1]

DictContents == [n \in {<<"#">>} |-> V1]

IsDict(v) == v = DictVal

\* Keys of a Python mapping: strings, or integers (any hashable may be a key)
StrKey(s) == [t |-> "str", s |-> s, n |-> 0]
IntKey(n) == [t |-> "int", s |-> Empty, n |-> n]
NoKey     == [t |-> "none", s |-> Empty, n |-> 0]

DigitOf(d) == CHOOSE c \in DigitChars :
                 c = <<"0","1","2","3","4","5","6","7","8","9">>[d + 1]

RECURSIVE Decimal(_)
Decimal(n) == IF n < 10 THEN <<DigitOf(n)>>
              ELSE Decimal(n \div 10) \o <<DigitOf(n % 10)>>

\* str(key)
Str(key) == IF key.t = "int" THEN Decimal(key.n) ELSE key.s

----------------------------------------------------------------------------
(* Attribute access on the instance: hasattr / getattr / setattr.         *)
(* Each returns a record; exc names the exception raised, if any.          *)

\* hasattr(self, name)
hasattr(d, name) ==
    IF name.t # "str" THEN [ret |-> FALSE, exc |-> "TypeError"]
    ELSE [ret |-> name.s \in Descriptors \/ name.s \in DOMAIN d \/ name.s \in Methods,
          exc |-> NoExc]

\* getattr(self, name)
getattr(d, name) ==
    IF name.t # "str" THEN [ret |-> PyNone, exc |-> "TypeError"]
    ELSE IF name.s = N_dict THEN [ret |-> TheDict, exc |-> NoExc]
    ELSE IF name.s = N_class THEN [ret |-> TheClass, exc |-> NoExc]
    ELSE IF name.s \in DOMAIN d THEN [ret |-> d[name.s], exc |-> NoExc]
    ELSE IF name.s \in Methods THEN [ret |-> BoundMethod, exc |-> NoExc]
    ELSE [ret |-> PyNone, exc |-> "AttributeError"]

\* setattr(self, name, value)
setattr(d, name, value) ==
    IF name.t # "str" THEN [d |-> d, exc |-> "TypeError"]
    ELSE IF name.s = N_dict
         THEN IF IsDict(value) THEN [d |-> DictContents, exc |-> NoExc]
                               ELSE [d |-> d, exc |-> "TypeError"]
    ELSE IF name.s = N_class THEN [d |-> d, exc |-> "TypeError"]
    ELSE [d |-> [n \in DOMAIN d \cup {name.s} |-> IF n = name.s THEN value ELSE d[n]],
          exc |-> NoExc]

\* self.<method>(...) can be called: the name still resolves to the class's function
Callable(d, m) == m \notin DOMAIN d

\* print(self.log, ...): evaluating self.log raises when the attribute is missing
PrintLog(d) == getattr(d, StrKey(N_log)).exc

----------------------------------------------------------------------------
(* Arguments.  A mapping argument is the sequence of its (key, value)     *)
(* items in iteration order; a file is what open() and json.load() make    *)
(* of it at the time of the call.                                          *)

NoneArg       == [t |-> "none", items |-> <<>>]
ListArg       == [t |-> "list", items |-> <<>>]       \* a list: not a dict
DictArg(its)  == [t |-> "dict", items |-> its]
Item(k, v)    == [k |-> k, v |-> v]

Unreadable    == [k |-> "unreadable", data |-> NoneArg]   \* open() raises
Malformed     == [k |-> "malformed",  data |-> NoneArg]   \* json.load() raises
JsonArray     == [k |-> "array",      data |-> ListArg]   \* json.load() returns a list
JsonObject(its) == [k |-> "object",   data |-> DictArg(its)]
NoFile        == [k |-> "none",       data |-> NoneArg]

P_file    == <<"f">>
P_missing == <<"x">>
P_dir     == <<"/">>

\* os.path.isfile(filename)
isfile(path) == path = P_file

----------------------------------------------------------------------------
(* The methods of Config as functions of the instance __dict__.  Each     *)
(* returns the new __dict__, the value returned and the exception raised.  *)

Outcome(d, ret, exc) == [d |-> d, ret |-> ret, exc |-> exc]

RECURSIVE MergeLoop(_, _, _)
\* for key in dict_data: ...
MergeLoop(d, items, i) ==
    IF i > Len(items) THEN Outcome(d, PyTrue, NoExc)
    ELSE IF ~Callable(d, N_clean_name) THEN Outcome(d, PyNone, "TypeError")
    ELSE LET name == clean_name(Strip(Str(items[i].k)))
         IN  IF name = Empty THEN MergeLoop(d, items, i + 1)
             ELSE LET r == setattr(d, StrKey(name), items[i].v)
                  IN  IF r.exc # NoExc THEN Outcome(r.d, PyNone, r.exc)
                      ELSE MergeLoop(r.d, items, i + 1)

update_from_dict(d, dict_data) ==
    IF dict_data.t # "dict" THEN Outcome(d, PyFalse, NoExc)
    ELSE MergeLoop(d, dict_data.items, 1)

\* variant: the validation failure returns True instead of False
load_json_abnormal_true(d, filename, file) ==
    IF ~(filename.t = "str" /\ filename.s # Empty /\ isfile(filename.s))
    THEN Outcome(d, PyTrue, NoExc)
    ELSE IF file.k \in {"unreadable", "malformed"}
    THEN IF PrintLog(d) # NoExc THEN Outcome(d, PyNone, PrintLog(d))
         ELSE Outcome(d, PyFalse, NoExc)
    ELSE IF ~Callable(d, N_update_from_dict) THEN Outcome(d, PyNone, "TypeError")
    ELSE LET r == update_from_dict(d, file.data)
         IN  IF r.exc # NoExc THEN Outcome(r.d, PyNone, r.exc)
             ELSE Outcome(r.d, PyTrue, NoExc)

load_json(d, filename, file) ==
    IF ~(filename.t = "str" /\ filename.s # Empty /\ isfile(filename.s))
    THEN Outcome(d, PyFalse, NoExc)
    ELSE IF file.k \in {"unreadable", "malformed"}
    THEN IF PrintLog(d) # NoExc THEN Outcome(d, PyNone, PrintLog(d))
         ELSE Outcome(d, PyFalse, NoExc)
    ELSE IF ~Callable(d, N_update_from_dict) THEN Outcome(d, PyNone, "TypeError")
    ELSE LET r == update_from_dict(d, file.data)
         IN  IF r.exc # NoExc THEN Outcome(r.d, PyNone, r.exc)
             ELSE Outcome(r.d, PyTrue, NoExc)

\* Config.__init__
init(default, json_file, file) ==
    LET r1 == IF default.t = "dict"
              THEN update_from_dict(EmptyDict, default)
              ELSE Outcome(EmptyDict, PyNone, NoExc)
    IN  IF r1.exc # NoExc THEN Outcome(r1.d, PyNone, r1.exc)
        ELSE LET r2 == IF json_file.t # "str" THEN Outcome(r1.d, PyNone, NoExc)
                       ELSE IF ~Callable(r1.d, N_load_json)
                            THEN Outcome(r1.d, PyNone, "TypeError")
                       ELSE load_json(r1.d, json_file, file)
             IN  IF r2.exc # NoExc THEN Outcome(r2.d, PyNone, r2.exc)
                 ELSE Outcome(setattr(r2.d, StrKey(N_log), LogPrefix).d, PyNone, NoExc)

set_param(d, name, val) ==
    LET r == setattr(d, name, val)
    IN  IF r.exc = NoExc THEN Outcome(r.d, PyNone, NoExc)
        ELSE Outcome(d, PyNone, PrintLog(d))

get_param(d, name, default) ==
    LET h == hasattr(d, name)
        r == IF h.exc # NoExc THEN [d |-> d, exc |-> h.exc]
             ELSE IF ~h.ret THEN setattr(d, name, default)
             ELSE [d |-> d, exc |-> NoExc]
    IN  IF r.exc # NoExc
        THEN IF PrintLog(d) # NoExc THEN Outcome(d, PyNone, PrintLog(d))
             ELSE Outcome(d, default, NoExc)
        ELSE LET g == getattr(r.d, name)
             IN  Outcome(r.d, g.ret, g.exc)

has_param(d, name) ==
    LET h == hasattr(d, name)
    IN  IF h.exc # NoExc THEN Outcome(d, PyNone, h.exc)
        ELSE Outcome(d, IF h.ret THEN PyTrue ELSE PyFalse, NoExc)

\* variant: the instance's own dict object is returned
get_all_params_alias(d) == [obj |-> "self", map |-> d]

\* self.__dict__.copy(): a new dict object with the same items
get_all_params(d) == [obj |-> "copy", map |-> d]

----------------------------------------------------------------------------
(* What the caller passes in *)

K_one   == StrKey(<<"1">>)
K_pad   == StrKey(<<" ", "-", "1">>)     \* " -1"
K_int   == IntKey(1)                     \* the integer 1
K_bad   == StrKey(<<"#">>)
K_log   == StrKey(N_log)
K_dict  == StrKey(N_dict)
K_get   == StrKey(N_get_param)

\* the (key, value) items mappings are built from
MergeItems == {Item(K_pad, V2), Item(K_int, V1), Item(K_bad, V1),
               Item(K_log, V2), Item(K_dict, V1), Item(K_dict, DictVal)}

\* the members of the JSON objects read from files: a JSON object has string keys only
FileItems == {Item(K_pad, V2), Item(K_bad, V1), Item(K_log, V2)}

RECURSIVE SeqsUpTo(_, _)
\* the sequences of at most n items of S with pairwise distinct keys
SeqsUpTo(S, n) ==
    IF n = 0 THEN {<<>>}
    ELSE LET shorter == SeqsUpTo(S, n - 1)
         IN  shorter \cup
             {Append(s, it) : s \in {q \in shorter : Len(q) = n - 1},
                              it \in S} 

DistinctKeys(s) == \A i, j \in 1..Len(s) : i # j => s[i].k # s[j].k

Sources     == {s \in SeqsUpTo(MergeItems, MaxSrc) : DistinctKeys(s)}
FileSources == {s \in SeqsUpTo(FileItems, MaxSrc) : DistinctKeys(s)}

DictArgs  == {DictArg(s) : s \in Sources}
AnyArgs   == DictArgs \cup {NoneArg, ListArg}

FileStates == {Unreadable, Malformed, JsonArray} \cup {JsonObject(s) : s \in FileSources}

\* path arguments; with each, what the file system holds there
PathArgs == {StrKey(Empty), StrKey(P_missing), StrKey(P_dir), IntKey(1)}
PathAndFile ==
    {<<pth, NoFile>> : pth \in PathArgs} \cup {<<StrKey(P_file), f>> : f \in FileStates}

\* names handed to set_param / get_param / has_param
NameArgs == {K_one, K_bad, K_log, K_get, K_dict, K_int}

\* the (name, value) pairs handed to set_param
SetArgs == {<<K_one, V2>>, <<K_bad, V1>>, <<K_log, V1>>, <<K_get, V1>>,
            <<K_dict, V1>>, <<K_dict, DictVal>>, <<K_int, V1>>}

\* what the caller does to the mapping get_all_params returned
MutKeys == {N_log, <<"n">>}

----------------------------------------------------------------------------
(* State machine *)

Call(op, name, val, data, path, file, ret, exc) ==
    [op |-> op, name |-> name, val |-> val, data |-> data, path |-> path,
     file |-> file, ret |-> ret, exc |-> exc]

NoCall == Call("none", NoKey, PyNone, NoneArg, NoKey, NoFile, PyNone, NoExc)

Unset == [done |-> FALSE, s |-> Empty]

Init ==
    /\ pc = "new"
    /\ entries = EmptyDict
    /\ last = NoCall
    /\ ref = "none"
    /\ snap = EmptyDict
    /\ raw = Empty
    /\ clean = Unset

\* the caller's reference to an exported mapping is followed until the next call on the store
DropRef == ref' = "none" /\ snap' = EmptyDict

\* Config(default, json_file)
Construct(default, json_file, file) ==
    /\ pc = "new"
    /\ LET r == init(default, json_file, file)
       IN  /\ pc' = IF r.exc = NoExc THEN "live" ELSE "dead"
           /\ entries' = r.d
           /\ last' = Call("init", NoKey, PyNone, default, json_file, file, r.ret, r.exc)
    /\ DropRef
    /\ UNCHANGED <<raw, clean>>

UpdateFromDict(dict_data) ==
    /\ pc = "live"
    /\ Callable(entries, N_update_from_dict)
    /\ LET r == update_from_dict(entries, dict_data)
       IN  /\ entries' = r.d
           /\ last' = Call("update_from_dict", NoKey, PyNone, dict_data, NoKey, NoFile,
                           r.ret, r.exc)
    /\ DropRef
    /\ UNCHANGED <<pc, raw, clean>>

LoadJson(filename, file) ==
    /\ pc = "live"
    /\ Callable(entries, N_load_json)
    /\ LET r == load_json(entries, filename, file)
       IN  /\ entries' = r.d
           /\ last' = Call("load_json", NoKey, PyNone, NoneArg, filename, file,
                           r.ret, r.exc)
    /\ DropRef
    /\ UNCHANGED <<pc, raw, clean>>

SetParam(name, val) ==
    /\ pc = "live"
    /\ Callable(entries, N_set_param)
    /\ LET r == set_param(entries, name, val)
       IN  /\ entries' = r.d
           /\ last' = Call("set_param", name, val, NoneArg, NoKey, NoFile, r.ret, r.exc)
    /\ DropRef
    /\ UNCHANGED <<pc, raw, clean>>

GetParam(name, default) ==
    /\ pc = "live"
    /\ Callable(entries, N_get_param)
    /\ LET r == get_param(entries, name, default)
       IN  /\ entries' = r.d
           /\ last' = Call("get_param", name, default, NoneArg, NoKey, NoFile,
                           r.ret, r.exc)
    /\ DropRef
    /\ UNCHANGED <<pc, raw, clean>>

HasParam(name) ==
    /\ pc = "live"
    /\ Callable(entries, N_has_param)
    /\ LET r == has_param(entries, name)
       IN  /\ entries' = r.d
           /\ last' = Call("has_param", name, PyNone, NoneArg, NoKey, NoFile,
                           r.ret, r.exc)
    /\ DropRef
    /\ UNCHANGED <<pc, raw, clean>>

GetAllParams ==
    /\ pc = "live"
    /\ Callable(entries, N_get_all_params)
    /\ LET r == get_all_params(entries)
       IN  /\ ref' = r.obj
           /\ snap' = IF r.obj = "copy" THEN r.map ELSE EmptyDict
           /\ last' = Call("get_all_params", NoKey, PyNone, NoneArg, NoKey, NoFile,
                           ACopy, NoExc)
    /\ UNCHANGED <<pc, entries, raw, clean>>

\* the public methods by name
PublicMethods == {N_update_from_dict, N_load_json, N_set_param, N_get_param,
                  N_has_param, N_get_all_params}

\* store.<m>(...) when an instance attribute named m hides the method: the
\* value found is not callable and the call raises TypeError at the call site
CallShadowed(m) ==
    /\ pc = "live"
    /\ ~Callable(entries, m)
    /\ last' = Call("shadowed", StrKey(m), PyNone, NoneArg, NoKey, NoFile, PyNone,
                    "TypeError")
    /\ DropRef
    /\ UNCHANGED <<pc, entries, raw, clean>>

\* m[k] = v on a dict object
Put(m, k, v) == [n \in DOMAIN m \cup {k} |-> IF n = k THEN v ELSE m[n]]
\* del m[k] on a dict object
Del(m, k) == [n \in DOMAIN m \ {k} |-> m[n]]

\* the caller adds, replaces or removes a top-level key of the mapping it was given
MutateReturned(k, v, remove) ==
    /\ pc = "live"
    /\ ref # "none"
    /\ LET target == IF ref = "self" THEN entries ELSE snap
           after  == IF remove THEN Del(target, k) ELSE Put(target, k, v)
       IN  /\ remove => k \in DOMAIN target
           /\ IF ref = "self"
              THEN entries' = after /\ UNCHANGED snap
              ELSE snap' = after /\ UNCHANGED entries
    /\ last' = Call("mutate", StrKey(k), v, NoneArg, NoKey, NoFile, PyNone, NoExc)
    /\ UNCHANGED <<pc, ref, raw, clean>>

Next ==
    \/ \E default \in AnyArgs, pf \in PathAndFile \cup {<<NoKey, NoFile>>} :
          Construct(default, pf[1], pf[2])
    \/ \E dict_data \in AnyArgs : UpdateFromDict(dict_data)
    \/ \E pf \in PathAndFile : LoadJson(pf[1], pf[2])
    \/ \E nv \in SetArgs : SetParam(nv[1], nv[2])
    \/ \E name \in NameArgs, default \in Scalars : GetParam(name, default)
    \/ \E name \in NameArgs : HasParam(name)
    \/ GetAllParams
    \/ \E m \in PublicMethods : CallShadowed(m)
    \/ \E k \in MutKeys, remove \in BOOLEAN : MutateReturned(k, V1, remove)

Spec == Init /\ [][Next]_vars

----------------------------------------------------------------------------
(* _clean_name on its own: every string of at most MaxLen characters      *)

SanChars == {"-", "a", "Z", "7", "_", ".", ":", "/", "\\", " ", "#"}

RECURSIVE StringsUpTo(_)
StringsUpTo(n) ==
    IF n = 0 THEN {Empty}
    ELSE LET shorter == StringsUpTo(n - 1)
         IN  shorter \cup {Append(s, c) : s \in {q \in shorter : Len(q) = n - 1},
                                          c \in SanChars}

InitClean ==
    /\ pc = "new"
    /\ entries = EmptyDict
    /\ last = NoCall
    /\ ref = "none"
    /\ snap = EmptyDict
    /\ raw \in StringsUpTo(MaxLen)
    /\ clean = Unset

CleanName ==
    /\ ~clean.done
    /\ clean' = [done |-> TRUE, s |-> clean_name(raw)]
    /\ UNCHANGED <<pc, entries, last, ref, snap, raw>>

NextClean == CleanName

SpecClean == InitClean /\ [][NextClean]_vars

----------------------------------------------------------------------------
(* Vocabulary of the properties, stated independently of the operators    *)
(* above: the name a raw key stands for, and the effect of a merge.        *)

NameChars == LowerChars \cup UpperChars \cup DigitChars \cup {"_", ".", ":", "/", "\\"}

\* number of leading '-' of s
LeadingDashes(s) ==
    CHOOSE k \in 0..Len(s) :
        /\ \A i \in 1..k : s[i] = "-"
        /\ k = Len(s) \/ s[k + 1] # "-"

\* s with all leading '-' removed
Remainder(s) == SubSeq(s, LeadingDashes(s) + 1, Len(s))

OnlyNameChars(s) == \A i \in 1..Len(s) : s[i] \in NameChars

\* s without surrounding whitespace
Trimmed(s) ==
    LET first == CHOOSE i \in 1..(Len(s) + 1) :
                     /\ \A j \in 1..(i - 1) : s[j] \in Whitespace
                     /\ i = Len(s) + 1 \/ s[i] \notin Whitespace
        lst   == CHOOSE i \in 0..Len(s) :
                     /\ \A j \in (i + 1)..Len(s) : s[j] \in Whitespace
                     /\ i = 0 \/ s[i] \notin Whitespace
    IN  SubSeq(s, first, lst)

\* the sanitized name of a raw key; Empty when the key is rejected
SanitizedName(key) ==
    LET r == Remainder(Trimmed(Str(key)))
    IN  IF OnlyNameChars(r) THEN r ELSE Empty

\* the name-sanitization predicate
PassesPredicate(n) == n # Empty /\ n[1] # "-" /\ OnlyNameChars(n)

\* entries after merging items into d: for each name, the item latest in order wins
MergedEntries(d, items) ==
    LET names == {SanitizedName(items[i].k) : i \in 1..Len(items)} \ {Empty}
        winner(n) == CHOOSE i \in 1..Len(items) :
                        /\ SanitizedName(items[i].k) = n
                        /\ \A j \in (i + 1)..Len(items) : SanitizedName(items[j].k) # n
    IN  [n \in DOMAIN d \cup names |-> IF n \in names THEN items[winner(n)].v ELSE d[n]]

\* a path that is not a non-empty string naming an existing regular file
AbnormalPath(path) == ~(path.t = "str" /\ path.s # Empty /\ path.s = P_file)

\* the latest call constructed a store with no default and no jsonPath
FreshlyConstructed(call) ==
    call.op = "init" /\ call.exc = NoExc /\ call.data = NoneArg /\ call.path = NoKey

LogOnly == [n \in {N_log} |-> LogPrefix]

----------------------------------------------------------------------------
(* Properties *)

\* C1: no call of a public operation raises an exception outward, whatever
\* the arguments and whatever names have been stored.
C1_NeverThrows == last.exc = NoExc

\* C2: construction with a jsonPath whose file cannot be read or parsed, or
\* that names no file, succeeds without an error reaching the caller whenever
\* construction from the default mapping alone does, and the store is then
\* the one the default mapping alone produces.
C2_ConstructionSurvivesBadFile ==
    (/\ last.op = "init"
     /\ last.path.t = "str"
     /\ AbnormalPath(last.path) \/ last.file.k \in {"unreadable", "malformed"}
     /\ init(last.data, NoKey, NoFile).exc = NoExc)
    => /\ pc = "live"
       /\ last.exc = NoExc
       /\ entries = init(last.data, NoKey, NoFile).d

\* C3 (as stated): in every reachable state every key of entries is a
\* non-empty string that passes the name-sanitization predicate.
C3_AllKeysSanitized == \A n \in DOMAIN entries : PassesPredicate(n)

\* a key of a mapping that the source of the latest call supplied under the name __dict__
FromInstalledMapping(call, n) ==
    \E its \in {call.data.items, call.file.data.items} :
        \E i \in 1..Len(its) :
            /\ SanitizedName(its[i].k) = N_dict
            /\ its[i].v = DictVal
            /\ n \in DOMAIN DictContents

\* C3 (amended): every key that construction, update_from_dict or load_json
\* adds to entries is a non-empty string that passes the name-sanitization
\* predicate, or is a key of a mapping the source supplied under the name
\* __dict__ (that mapping replaces entries); nothing is stated about the keys
\* set_param and get_param add.
C3_MergeAddsSanitizedKeys ==
    [][last'.op \in {"init", "update_from_dict", "load_json"}
         => \A n \in DOMAIN entries' \ DOMAIN entries :
               PassesPredicate(n) \/ FromInstalledMapping(last', n)]_vars

\* C3 witness: a merge that met a rejected key and a padded, dash-prefixed key
\* has added the sanitized name "1" and nothing for the rejected key.
C3_Witness ==
    /\ last.op = "update_from_dict"
    /\ last.ret = PyTrue
    /\ last.data.items = <<Item(K_bad, V1), Item(K_pad, V2)>>
    /\ DOMAIN entries = {N_log, <<"1">>}

\* C4: after construction with a default mapping and a readable JSON object,
\* get(name) returns the file's value for every name the file contributes and
\* the default's value for every name only the default contributes.
C4_FileWinsOverDefault ==
    (/\ last.op = "init"
     /\ pc = "live"
     /\ last.data.t = "dict"
     /\ last.file.k = "object")
    => LET F == MergedEntries(EmptyDict, last.file.data.items)
           D == MergedEntries(EmptyDict, last.data.items)
       IN  /\ \A n \in DOMAIN F : get_param(entries, StrKey(n), V1).ret = F[n]
           /\ \A n \in DOMAIN D \ DOMAIN F : get_param(entries, StrKey(n), V1).ret = D[n]

\* C5: load_json on a file that parses as JSON returns true when the top
\* level is an object and false when it is an array or a scalar, and then
\* leaves entries unchanged.
C5_LoadReturnsMergeResult ==
    [][(last'.op = "load_json" /\ ~AbnormalPath(last'.path) /\ last'.exc = NoExc)
         => /\ last'.file.k = "object" => last'.ret = PyTrue
            /\ last'.file.k = "array" => last'.ret = PyFalse /\ entries' = entries]_vars

C7_GetOrInitialize ==
    [][(last'.op = "get_param" /\ last'.name.t = "str")
         => IF last'.name.s \notin DOMAIN entries
            THEN /\ entries' = [n \in DOMAIN entries \cup {last'.name.s} |->
                                   IF n = last'.name.s THEN last'.val ELSE entries[n]]
                 /\ last'.ret = last'.val
                 /\ has_param(entries', last'.name).ret = PyTrue
            ELSE /\ last'.ret = entries[last'.name.s]
                 /\ entries' = entries]_vars

C9_MergeEffect ==
    [][(last'.op = "update_from_dict" /\ last'.data.t = "dict")
         => /\ last'.ret = PyTrue
            /\ last'.exc = NoExc
            /\ entries' = MergedEntries(entries, last'.data.items)]_vars

\* C10: get_all_params returns a mapping whose content equals entries at the
\* time of the call, and adding, replacing or removing keys of the returned
\* mapping leaves entries, hence every later get, has and export, unchanged.
C10_ExportIsACopy ==
    [][/\ (last'.op = "get_all_params" /\ last'.exc = NoExc)
            => (ref' = "copy" /\ snap' = entries /\ entries' = entries)
       /\ last'.op = "mutate" => entries' = entries]_vars

\* C10 witness: the caller has changed the returned mapping, which now
\* differs from entries.
C10_Witness == last.op = "mutate" /\ ref = "copy" /\ snap # entries

====
